---------------------------- MODULE Spec2Model ----------------------------
(***************************************************************************)
(* A model of the OASIS duplicate-file scanner.                            *)
(*                                                                         *)
(*   duplicate_files_scanner  src/duplicate_files_scanner.hpp              *)
(*   filename_sort, directory_scanner, is_hidden   src/base.hpp            *)
(*                                                                         *)
(* A file name is a sequence of one-character strings, a directory is a    *)
(* sequence of component names below the search root, a path is a record   *)
(* [dir, name].  A byte is a number in 0..255.  A duplicate set is the     *)
(* red-black tree that std::set keeps, so that an insert performs exactly  *)
(* the comparisons the library performs.                                   *)
(***************************************************************************)
EXTENDS Integers, Sequences, FiniteSets, TLC

(***************************************************************************)
(* Bounds of the model.                                                    *)
(***************************************************************************)
\* Largest number of directory entries (files and links) below the root.
MaxFiles == 3
\* Number of threads std::for_each(std::execution::par, ...) runs.
NumWorkers == 2
\* Largest number of perform_scan calls on one engine.
MaxScans == 2
\* Largest number of failing system calls while a directory is enumerated.
MaxFaults == 2
\* Largest size of a file whose bytes are enumerated.
MaxBytes == 4

(***************************************************************************)
(* Characters.  Ascii lists the characters the model uses in ASCII order;  *)
(* Code(c) is the position of c in it, so Code orders characters as their  *)
(* code points do.                                                         *)
(***************************************************************************)
Ascii ==
  << "(", ")", ".",
     "0", "1", "2", "3", "4", "5", "6", "7", "8", "9",
     "A", "B", "C", "D", "E", "F", "G", "H", "I", "J", "K", "L", "M",
     "N", "O", "P", "Q", "R", "S", "T", "U", "V", "W", "X", "Y", "Z",
     "[", "]", "_",
     "a", "b", "c", "d", "e", "f", "g", "h", "i", "j", "k", "l", "m",
     "n", "o", "p", "q", "r", "s", "t", "u", "v", "w", "x", "y", "z",
     "{", "}" >>

CodeOf == [c \in {Ascii[i] : i \in 1..Len(Ascii)} |-> CHOOSE i \in 1..Len(Ascii) : Ascii[i] = c]

Code(c) == CodeOf[c]

Digits == <<"0", "1", "2", "3", "4", "5", "6", "7", "8", "9">>

IsDigit(c) == \E i \in 1..Len(Digits) : Digits[i] = c

DigitValue(c) == (CHOOSE i \in 1..Len(Digits) : Digits[i] = c) - 1

\* std::toupper in the "C" locale: 'a'..'z' map to 'A'..'Z'.
ToUpper(c) ==
  IF Code(c) >= Code("a") /\ Code(c) <= Code("z")
  THEN Ascii[Code(c) - Code("a") + Code("A")]
  ELSE c

\* std::tolower in the "C" locale: 'A'..'Z' map to 'a'..'z'.
ToLower(c) ==
  IF Code(c) >= Code("A") /\ Code(c) <= Code("Z")
  THEN Ascii[Code(c) - Code("A") + Code("a")]
  ELSE c

\* boost::ilexicographical_compare(a, b): is_iless compares toupper'ed
\* characters; a proper prefix is less.
RECURSIVE ILexLess(_, _)
ILexLess(a, b) ==
  IF b = <<>> THEN FALSE
  ELSE IF a = <<>> THEN TRUE
  ELSE IF Code(ToUpper(Head(a))) < Code(ToUpper(Head(b))) THEN TRUE
  ELSE IF Code(ToUpper(Head(b))) < Code(ToUpper(Head(a))) THEN FALSE
  ELSE ILexLess(Tail(a), Tail(b))

\* is_iequal on two strings of the same length.
IEqual(a, b) ==
  /\ Len(a) = Len(b)
  /\ \A i \in 1..Len(a) : ToUpper(a[i]) = ToUpper(b[i])

\* boost::icontains(input, test): test occurs in input, ignoring case.
IContains(input, test) ==
  \/ test = <<>>
  \/ \E i \in 1..(Len(input) - Len(test) + 1) :
        IEqual(SubSeq(input, i, i + Len(test) - 1), test)

(***************************************************************************)
(* The numbered-file-name pattern  (?:[\(\[{_])(\d+)(?:[\)\]}_])           *)
(***************************************************************************)
Openers == {"(", "[", "{", "_"}
Closers == {")", "]", "}", "_"}

\* The end of the digit run that starts at position i of n (i - 1 if none).
RECURSIVE DigitRunEnd(_, _)
DigitRunEnd(n, i) ==
  IF i <= Len(n) /\ IsDigit(n[i]) THEN DigitRunEnd(n, i + 1) ELSE i - 1

\* The pattern matches at position i: an opener, one or more digits (all of
\* them: a closer is no digit, so no shorter run can match), a closer.
MatchesAt(n, i) ==
  /\ i >= 1 /\ i + 2 <= Len(n)
  /\ n[i] \in Openers
  /\ LET e == DigitRunEnd(n, i + 1)
     IN  e >= i + 1 /\ e + 1 <= Len(n) /\ n[e + 1] \in Closers

\* boost::regex_search(n, m, re): some position matches.
HasNum(n) == \E i \in 1..Len(n) : MatchesAt(n, i)

RECURSIVE ToNumber(_, _)
ToNumber(ds, acc) ==
  IF ds = <<>> THEN acc ELSE ToNumber(Tail(ds), acc * 10 + DigitValue(Head(ds)))

\* std::stoull(m[1]) of the leftmost match.
NumOf(n) ==
  LET i == CHOOSE k \in 1..Len(n) : MatchesAt(n, k) /\ \A j \in 1..(k - 1) : ~MatchesAt(n, j)
  IN  ToNumber(SubSeq(n, i + 1, DigitRunEnd(n, i + 1)), 0)


(***************************************************************************)
(* The directory tree.  An entry of the tree is a record                   *)
(*   [path, kind, obj, target]                                             *)
(* kind "file": a regular file, obj its on-disk object (two entries with   *)
(* the same obj are hard links of one file); kind "link": a symbolic link  *)
(* to the path target.  The content of an object is fixed by its number.   *)
(***************************************************************************)
VARIABLES
  fs,               \* the entries below the search root
  follow_links,     \* directory_scanner::_follow_links
  skip_hidden,      \* directory_scanner::_skip_hidden
  extensions,       \* directory_scanner::_extensions
  min_size,         \* directory_scanner::_min_size
  max_size,         \* directory_scanner::_max_size
  remove_single,    \* duplicate_files_scanner::_remove_single
  sets,             \* duplicate_files_scanner::_sets: content key -> tree
  files_examined,   \* directory_scanner::_files_examined
  sets_found,       \* duplicate_files_scanner::_sets_found
  list_lock,        \* duplicate_files_scanner::_list_lock: the entry whose
                    \* _add_file call holds it, NoPath when free
  buffer,           \* the bytes of duplicate_files_scanner::_buffer
  phase,            \* "idle", "scanning" (inside perform_scan), "returned"
  scans,            \* the number of perform_scan calls made on the engine
  search_dir,       \* the search_dir argument of the last perform_scan call
  thrown,           \* the exception that call left by, "none" if none
  pending,          \* directory entries std::for_each has yet to hand out
  running,          \* the _add_file calls under way, one per busy thread
  events,           \* the callbacks fired so far, in order
  reported,         \* directory entries _scan_error_callback was called with
  hashed,           \* directory entries _get_hash_of_file returned true for
  counted,          \* directory entries counted in _files_examined
  principals,       \* the paths a set of the index was made with
  operands,         \* the paths handed to a comparator, <<>> if none
  verdicts,         \* what the comparator returned for each pair of them
  files,            \* unique_files_scanner::_files
  unique_pc,        \* unique_files_scanner::perform_scan: "idle", "engine"
                    \* (inside _scanner.perform_scan), "done"
  unique_config,    \* the unique_files_scanner's own directory_scanner fields
  enumerator,       \* a directory_enumerator, the directory it reads and the
                    \* position of its move_next
  hashing           \* one call of _get_hash_of_file: the file, the stream and
                    \* the hasher

vars == << fs, follow_links, skip_hidden, extensions, min_size, max_size,
           remove_single, sets, files_examined, sets_found, list_lock,
           buffer, phase, scans, search_dir, thrown, pending, running,
           events, reported, hashed, counted, principals, operands, verdicts,
           files, unique_pc, unique_config, enumerator, hashing >>

config == << fs, follow_links, skip_hidden, extensions, min_size, max_size,
             remove_single >>

call == << search_dir, thrown >>

\* The variables of the objects other than the engine.
wrapper == << files, unique_pc, unique_config >>

apart == << operands, verdicts, files, unique_pc, unique_config, enumerator, hashing >>

\* The variables of the engine.
engine == << sets, files_examined, sets_found, list_lock, buffer, phase, scans,
             pending, running, events, reported, hashed, counted, principals >>

Path(d, n) == [dir |-> d, name |-> n]

RootDir == <<>>
DotDir == << <<".", "g", "i", "t">> >>

FileEntry(d, n, o) == [path |-> Path(d, n), kind |-> "file", obj |-> o, target |-> Path(d, n)]
LinkEntry(d, n, t) == [path |-> Path(d, n), kind |-> "link", obj |-> 0, target |-> t]

a_txt == <<"a", ".", "t", "x", "t">>
b_txt == <<"b", ".", "t", "x", "t">>
z_txt == <<"z", ".", "t", "x", "t">>
l_txt == <<"l", ".", "t", "x", "t">>
c_dat == <<"c", ".", "d", "a", "t">>
dot_g_txt == <<".", "g", ".", "t", "x", "t">>
u_txt == <<"u", ".", "t", "x", "t">>
zz == <<"z", "z">>
azz == <<"a", "z", "z">>
x_1 == <<"x", "(", "1", ")">>
y_1 == <<"y", "_", "1", "_">>

\* The entries a tree is drawn from.
Universe ==
  { FileEntry(RootDir, a_txt, 1),
    FileEntry(RootDir, b_txt, 2),            \* a copy of a.txt
    FileEntry(RootDir, z_txt, 1),            \* a hard link of a.txt
    LinkEntry(RootDir, l_txt, Path(RootDir, a_txt)),
    FileEntry(DotDir,  a_txt, 3),            \* a copy of the same name in .git
    FileEntry(RootDir, c_dat, 4),            \* differs from a.txt in one byte
    FileEntry(RootDir, dot_g_txt, 5) }       \* a dotfile longer than a digest

\* Skein_512::output_length().
digest_length == 64

Repeat(b, n) == [i \in 1..n |-> b]

ObjContent(o) ==
  CASE o = 4 -> <<79, 66>>
    [] o = 5 -> Repeat(65, digest_length + 1)
    [] OTHER -> <<65, 66>>

\* The entry at path p, as a set of none or one.
EntryAt(p) == {e \in fs : e.path = p}

\* The on-disk object path p leads to, following a symbolic link; 0 if none.
Resolve(p) ==
  IF EntryAt(p) = {} THEN 0
  ELSE LET e == CHOOSE x \in EntryAt(p) : TRUE
       IN  IF e.kind = "file" THEN e.obj
           ELSE IF \E t \in EntryAt(e.target) : t.kind = "file"
                THEN (CHOOSE t \in EntryAt(e.target) : t.kind = "file").obj
                ELSE 0

\* std::filesystem::equivalent(a, b, ec) with ec clear: both resolve to the
\* same object.
Equivalent(a, b) == Resolve(a) # 0 /\ Resolve(a) = Resolve(b)

\* equivalent sets ec when neither path exists.
EquivalentFails(a, b) == Resolve(a) = 0 /\ Resolve(b) = 0

(***************************************************************************)
(* filename_sort::operator()                                               *)
(***************************************************************************)
filename_sort(lhs, rhs) ==
  LET n1 == lhs.name
      n2 == rhs.name
  IN  IF Equivalent(lhs, rhs) THEN FALSE
      ELSE IF EquivalentFails(lhs, rhs) THEN FALSE
      ELSE IF HasNum(n1) /\ HasNum(n2) THEN NumOf(n1) < NumOf(n2)
      ELSE IF HasNum(n1) /\ ~HasNum(n2) THEN FALSE
      ELSE IF ~HasNum(n1) /\ HasNum(n2) THEN TRUE
      ELSE IF Len(n1) < Len(n2) THEN IContains(n2, n1)
      ELSE ILexLess(n1, n2)

(***************************************************************************)
(* sort_by_filename::operator() of foundation.hpp: the same comparison     *)
(* without the substring rule.                                             *)
(***************************************************************************)
sort_by_filename(lhs, rhs) ==
  LET n1 == lhs.name
      n2 == rhs.name
  IN  IF Equivalent(lhs, rhs) THEN FALSE
      ELSE IF EquivalentFails(lhs, rhs) THEN FALSE
      ELSE IF HasNum(n1) /\ HasNum(n2) THEN NumOf(n1) < NumOf(n2)
      ELSE IF HasNum(n1) /\ ~HasNum(n2) THEN FALSE
      ELSE IF ~HasNum(n1) /\ HasNum(n2) THEN TRUE
      ELSE ILexLess(n1, n2)

(***************************************************************************)
(* std::set<path, filename_sort>: a red-black tree.  A tree is <<>> or     *)
(* <<node>>, node == [k, red, l, r].                                       *)
(***************************************************************************)
Leaf(p) == << [k |-> p, red |-> TRUE, l |-> <<>>, r |-> <<>>] >>

IsRed(t) == t # <<>> /\ t[1].red

RECURSIVE InOrder(_)
InOrder(t) ==
  IF t = <<>> THEN <<>> ELSE InOrder(t[1].l) \o <<t[1].k>> \o InOrder(t[1].r)

Size(t) == Len(InOrder(t))

Members(t) == {InOrder(t)[i] : i \in 1..Size(t)}

\* The walk of _M_get_insert_unique_pos from the root: left when the new key
\* compares less than the node, right otherwise.  The result is the node the
\* walk last went right at, i.e. the in-order predecessor j of the place the
\* walk ends at (<<>>: the place is begin()).
RECURSIVE Predecessor(_, _, _)
Predecessor(t, p, j) ==
  IF t = <<>> THEN j
  ELSE IF filename_sort(p, t[1].k) THEN Predecessor(t[1].l, p, j)
       ELSE Predecessor(t[1].r, p, <<t[1].k>>)

\* insert finds no equivalent key: the place is begin(), or j compares less
\* than the new key.
IsNewKey(t, p) ==
  LET j == Predecessor(t, p, <<>>)
  IN  j = <<>> \/ filename_sort(j[1], p)

Paint(t, red) == << [t[1] EXCEPT !.red = red] >>

\* _Rb_tree_insert_and_rebalance at a node g whose left subtree received the
\* new node: a red child with a red child is repaired by recolouring (red
\* uncle) or by rotation (black uncle).
FixLeft(g) ==
  LET c == g.l[1]
      u == g.r
  IN  IF ~(IsRed(g.l) /\ (IsRed(c.l) \/ IsRed(c.r))) THEN <<g>>
      ELSE IF IsRed(u)
           THEN << [g EXCEPT !.red = TRUE, !.l = Paint(g.l, FALSE), !.r = Paint(u, FALSE)] >>
      ELSE IF IsRed(c.l)
           THEN << [c EXCEPT !.red = FALSE,
                             !.r = << [g EXCEPT !.red = TRUE, !.l = c.r] >>] >>
      ELSE LET x == c.r[1]
           IN  << [x EXCEPT !.red = FALSE,
                            !.l = << [c EXCEPT !.r = x.l] >>,
                            !.r = << [g EXCEPT !.red = TRUE, !.l = x.r] >>] >>

FixRight(g) ==
  LET c == g.r[1]
      u == g.l
  IN  IF ~(IsRed(g.r) /\ (IsRed(c.l) \/ IsRed(c.r))) THEN <<g>>
      ELSE IF IsRed(u)
           THEN << [g EXCEPT !.red = TRUE, !.r = Paint(g.r, FALSE), !.l = Paint(u, FALSE)] >>
      ELSE IF IsRed(c.r)
           THEN << [c EXCEPT !.red = FALSE,
                             !.l = << [g EXCEPT !.red = TRUE, !.r = c.l] >>] >>
      ELSE LET x == c.l[1]
           IN  << [x EXCEPT !.red = FALSE,
                            !.r = << [c EXCEPT !.l = x.r] >>,
                            !.l = << [g EXCEPT !.red = TRUE, !.r = x.l] >>] >>

RECURSIVE Place(_, _)
Place(t, p) ==
  IF t = <<>> THEN Leaf(p)
  ELSE IF filename_sort(p, t[1].k)
       THEN FixLeft([t[1] EXCEPT !.l = Place(t[1].l, p)])
       ELSE FixRight([t[1] EXCEPT !.r = Place(t[1].r, p)])

\* std::set::insert(p).
SetInsert(t, p) == IF IsNewKey(t, p) THEN Paint(Place(t, p), FALSE) ELSE t

(***************************************************************************)
(* duplicate_files_scanner::_get_hash_of_file                              *)
(***************************************************************************)
hex == <<"0", "1", "2", "3", "4", "5", "6", "7", "8", "9", "A", "B", "C", "D", "E", "F">>

\* The loop of the short-file branch over bytes i..s of temp, writing through
\* the iterator at position it of result: *it = hex[c / 16]; it++;
\* *it = hex[c % 16];
RECURSIVE ShortLoop(_, _, _, _, _)
ShortLoop(result, temp, i, it, s) ==
  IF i > s THEN result
  ELSE LET c == temp[i]
           r1 == [result EXCEPT ![it] = hex[(c \div 16) + 1]]
           r2 == [r1 EXCEPT ![it + 1] = hex[(c % 16) + 1]]
       IN  ShortLoop(r2, temp, i + 1, it + 1, s)

\* The short-file branch: result.insert(0, digest_length * 2, '0'), then the
\* loop over the first s bytes of the buffer.
ShortHex(temp, s) == ShortLoop([i \in 1..(digest_length * 2) |-> "0"], temp, 1, 1, s)

\* The sum of the bytes at positions i, i + digest_length, ... of bytes.
RECURSIVE Lane(_, _)
Lane(bytes, i) ==
  IF i > Len(bytes) THEN 0 ELSE bytes[i] + Lane(bytes, i + digest_length)

\* Botan::Skein_512 (update of all bytes, then final_stdvec): a library
\* outside the repository.  The stand-in is a function of every byte fed and
\* of their number, digest_length bytes long.
Skein_512(bytes) ==
  [i \in 1..digest_length |-> (Lane(bytes, i) + 7 * Len(bytes) + i) % 256]

\* The loop that pushes two hex digits for each byte of the digest.
HexOf(digest) ==
  [i \in 1..(2 * Len(digest)) |->
     IF i % 2 = 1 THEN hex[(digest[(i + 1) \div 2] \div 16) + 1]
                  ELSE hex[(digest[i \div 2] % 16) + 1]]

\* The key _get_hash_of_file makes of a file of size s from the bytes it finds
\* in the buffer.
HashKey(temp, s) ==
  IF s <= digest_length
  THEN << s, ShortHex(temp, s) >>
  ELSE << s, HexOf(Skein_512(SubSeq(temp, 1, s))) >>

\* file.read(_buffer.get(), buffer_size) of a file shorter than the buffer:
\* its bytes replace the first bytes of the buffer.
ReadInto(buf, bytes) ==
  bytes \o (IF Len(buf) > Len(bytes) THEN SubSeq(buf, Len(bytes) + 1, Len(buf)) ELSE <<>>)

(***************************************************************************)
(* Path policy: is_hidden, path::extension, the size window.               *)
(***************************************************************************)
is_hidden(p) == p.name # <<>> /\ p.name[1] = "."

LastDot(n) ==
  IF \E i \in 1..Len(n) : n[i] = "."
  THEN CHOOSE i \in 1..Len(n) : n[i] = "." /\ \A j \in (i + 1)..Len(n) : n[j] # "."
  ELSE 0

\* std::filesystem::path::extension(): from the last dot of the file name,
\* unless that dot is its first character.
Extension(p) ==
  IF LastDot(p.name) <= 1 THEN <<>> ELSE SubSeq(p.name, LastDot(p.name), Len(p.name))

ExtensionAdmits(p) == extensions = {} \/ Extension(p) \in extensions

\* A size window that excludes its lower bound.
SizeAdmitsAbove(s) == ~((s <= min_size) \/ (s > max_size))

\* The negation of (s < _min_size) || (s > _max_size).
SizeAdmits(s) == ~((s < min_size) \/ (s > max_size))

FileSize(p) == Len(ObjContent(Resolve(p)))

\* The on-disk objects the process may not open for reading.
Unreadable == {6}

\* std::ifstream file(p, std::ios::binary); !file
OpenFails(p) == Resolve(p) \in Unreadable

(***************************************************************************)
(* Directory enumeration and the classification of an entry by _add_file.  *)
(***************************************************************************)
NoPath == Path(<<>>, <<>>)

IsSymlink(d) == \E e \in EntryAt(d) : e.kind = "link"

\* A directory below the root: some entry of the tree lies in it.
IsDirectory(d) == d.dir = RootDir /\ \E e \in fs : e.path.dir = <<d.name>>

Directories == {Path(RootDir, e.path.dir[1]) : e \in {x \in fs : x.path.dir # RootDir}}

\* What directory_iterator (root only) or recursive_directory_iterator (the
\* whole tree) hands to _build_list.
Dirents(rec) ==
  Directories \cup {e.path : e \in {x \in fs : rec \/ x.path.dir = RootDir}}

Exists(p) == Resolve(p) # 0 \/ IsDirectory(p)

IsRegularFile(p) == Resolve(p) # 0

\* std::filesystem::canonical(dirent, ec) fails: a link whose target is gone.
CanonicalFails(d) == IsSymlink(d) /\ ~Exists((CHOOSE e \in EntryAt(d) : TRUE).target)

\* The path p that _add_file goes on with: the target of a followed link, the
\* entry itself otherwise.
AddFilePath(d) ==
  IF IsSymlink(d) /\ follow_links THEN (CHOOSE e \in EntryAt(d) : TRUE).target ELSE d

\* _add_file up to the call of file.read: "error" (the error callback fires),
\* "throw" (canonical(dirent) throws), "skip" (a silent return), "closed"
\* (the file does not open: a silent return) or "read".
Admission(d) ==
  IF skip_hidden /\ is_hidden(d) THEN "skip"
  ELSE IF IsSymlink(d) /\ follow_links /\ CanonicalFails(d) THEN "error"
  ELSE IF ~IsSymlink(d) /\ ~Exists(d) THEN "throw"
  ELSE IF ~Exists(AddFilePath(d)) THEN "skip"
  ELSE IF ~IsRegularFile(AddFilePath(d)) THEN "skip"
  ELSE IF ~ExtensionAdmits(AddFilePath(d)) THEN "skip"
  ELSE IF ~SizeAdmits(FileSize(AddFilePath(d))) THEN "skip"
  ELSE IF OpenFails(AddFilePath(d)) THEN "closed"
  ELSE "read"

(***************************************************************************)
(* The state after construction and the setters.                          *)
(***************************************************************************)
\* The largest size the model's numbers hold, for SIZE_MAX.
SIZE_MAX == 2147483647

txt == <<".", "t", "x", "t">>

\* The constructors' configuration.
Default ==
  [follow_links |-> FALSE, skip_hidden |-> FALSE, extensions |-> {},
   min_size |-> 0, max_size |-> SIZE_MAX, remove_single |-> TRUE]

\* The configurations a scan runs under: the default, and the default after
\* one setter (for the size window, the two setters that make it).
Configs ==
  { Default,
    [Default EXCEPT !.follow_links = TRUE],
    [Default EXCEPT !.skip_hidden = TRUE],
    [Default EXCEPT !.extensions = {txt}],
    [Default EXCEPT !.min_size = 2, !.max_size = 2],
    [Default EXCEPT !.min_size = digest_length + 1, !.max_size = digest_length + 1],
    [Default EXCEPT !.remove_single = FALSE] }

Trees == {t \in SUBSET Universe : Cardinality(t) <= MaxFiles}

\* The engine is configured as c.
Configured(c) ==
  /\ follow_links = c.follow_links
  /\ skip_hidden = c.skip_hidden
  /\ extensions = c.extensions
  /\ min_size = c.min_size
  /\ max_size = c.max_size
  /\ remove_single = c.remove_single

\* The engine before its first perform_scan.
Fresh ==
  /\ sets = <<>>
  /\ files_examined = 0
  /\ sets_found = 0
  /\ list_lock = NoPath
  /\ buffer = <<>>
  /\ phase = "idle"
  /\ scans = 0
  /\ search_dir = "none"
  /\ thrown = "none"
  /\ pending = {}
  /\ running = {}
  /\ events = <<>>
  /\ reported = {}
  /\ hashed = {}
  /\ counted = {}
  /\ principals = {}

\* No comparator has been called.
NoComparison == operands = <<>> /\ verdicts = <<>>

\* directory_scanner::directory_scanner for the unique_files_scanner.
UniqueDefault ==
  [follow_links |-> FALSE, skip_hidden |-> FALSE, extensions |-> {},
   min_size |-> 0, max_size |-> SIZE_MAX]

\* unique_files_scanner::unique_files_scanner, or no such object.
NoWrapper == files = <<>> /\ unique_pc = "idle" /\ unique_config = UniqueDefault

\* directory_enumerator::directory_enumerator on a directory with the given
\* entries, for the build of the given platform.
Enumerator(platform, entries) ==
  [platform |-> platform, entries |-> entries, pos |-> 0, faults |-> 0,
   pc |-> "idle", opened |-> FALSE, ended |-> TRUE, handle |-> FALSE,
   current |-> "", ec |-> "", ret |-> "none", retries |-> 0, sleeps |-> 0]

\* No directory is enumerated.
NoEnumerator == enumerator = Enumerator("none", <<>>)

\* A call of _get_hash_of_file about to start on a file of s bytes; bytes are
\* its contents when they are enumerated.
HashCall(s, bytes) ==
  [size |-> s, bytes |-> bytes, pc |-> "call", offset |-> 0, eof |-> FALSE,
   fed |-> 0, ret |-> "none", out |-> <<>>]

\* No file is hashed on its own.
NoHashing == hashing = HashCall(0, <<>>)

Init ==
  /\ fs \in Trees
  /\ \E c \in Configs : Configured(c)
  /\ Fresh
  /\ NoComparison
  /\ NoWrapper
  /\ NoEnumerator
  /\ NoHashing

\* The trees and configurations of an engine that scans more than once: two
\* copies and a longer dotfile, under the engine's own constructor, with
\* hidden files skipped, and under unique_files_scanner, which clears
\* _remove_single.
RescanTrees ==
  SUBSET { FileEntry(RootDir, a_txt, 1), FileEntry(RootDir, b_txt, 2),
           FileEntry(RootDir, dot_g_txt, 5) }

RescanConfigs ==
  { Default,
    [Default EXCEPT !.skip_hidden = TRUE],
    [Default EXCEPT !.remove_single = FALSE] }

InitRescan ==
  /\ fs \in RescanTrees
  /\ \E c \in RescanConfigs : Configured(c)
  /\ Fresh
  /\ NoComparison
  /\ NoWrapper
  /\ NoEnumerator
  /\ NoHashing

(***************************************************************************)
(* perform_scan, entry.  A search_dir is "dir" (the directory the tree is  *)
(* under), "" (the empty path), "missing" (a path that does not exist) or  *)
(* "file" (the path of a regular file).                                    *)
(***************************************************************************)
Roots == {"dir", "", "missing", "file"}

\* A search_dir whose checks throw nothing.
RootChecksPass(root) == "none"

\* The exception the argument checks of perform_scan throw for search_dir:
\* invalid_argument for the empty path, canonical's filesystem_error for a
\* path that does not exist, invalid_argument for a path that is no directory.
RootCheck(root) ==
  CASE root = "" -> "invalid_argument"
    [] root = "missing" -> "filesystem_error"
    [] root = "file" -> "invalid_argument"
    [] OTHER -> "none"

\* The call: when the checks pass the progress callback fires, the iterator
\* is made and _build_list starts the threads.
ScanEntry(root, rec) ==
  /\ phase \in {"idle", "returned"}
  /\ scans' = scans + 1
  /\ search_dir' = root
  /\ thrown' = RootCheck(root)
  /\ IF RootCheck(root) = "none"
     THEN /\ phase' = "scanning"
          /\ events' = Append(events, "progress")
          /\ pending' = Dirents(rec)
     ELSE UNCHANGED << phase, events, pending >>
  /\ UNCHANGED << reported, sets, files_examined, sets_found, list_lock,
                  buffer, running, hashed, counted,
                  principals >>

\* perform_scan called on the engine itself.
PerformScan(root, rec) == ScanEntry(root, rec) /\ UNCHANGED << config, apart >>

\* A thread of std::for_each is free to take the next entry.
ThreadFree == phase = "scanning" /\ Cardinality(running) < NumWorkers

\* _add_file returns before reading the file, silently.
Skip(d) ==
  /\ ThreadFree /\ d \in pending
  /\ Admission(d) \in {"skip", "closed"}
  /\ pending' = pending \ {d}
  /\ UNCHANGED << config, call, apart, reported, scans, sets, files_examined, sets_found, list_lock, buffer,
                  phase, running, events, hashed, counted,
                  principals >>

\* _add_file returns after the error callback.
ReportError(d) ==
  /\ ThreadFree /\ d \in pending
  /\ Admission(d) = "error"
  /\ pending' = pending \ {d}
  /\ events' = Append(events, "error")
  /\ reported' = reported \cup {d}
  /\ UNCHANGED << config, call, apart, scans, sets, files_examined, sets_found, list_lock, buffer,
                  phase, running, hashed, counted,
                  principals >>

\* canonical(dirent) throws in _add_file: an exception that leaves the
\* function std::for_each(std::execution::par, ...) runs ends the process by
\* std::terminate.
Throw(d) ==
  /\ ThreadFree /\ d \in pending
  /\ Admission(d) = "throw"
  /\ phase' = "terminated"
  /\ pending' = {}
  /\ running' = {}
  /\ UNCHANGED << config, call, apart, reported, scans, sets, files_examined, sets_found,
                  list_lock, buffer, events, hashed, counted,
                  principals >>

\* Another process removes an entry the iterator has listed and no thread
\* has taken yet.
Vanish(e) ==
  /\ phase = "scanning"
  /\ e \in fs /\ e.path \in pending
  /\ fs' = fs \ {e}
  /\ UNCHANGED << follow_links, skip_hidden, extensions, min_size, max_size,
                  remove_single, call, apart, reported, scans, sets,
                  files_examined,
                  sets_found, list_lock, buffer, phase, pending, running,
                  events, hashed, counted,
                  principals >>

\* _add_file reaches _get_hash_of_file, which reads the file into _buffer.
Read(d) ==
  /\ ThreadFree /\ d \in pending
  /\ Admission(d) = "read"
  /\ pending' = pending \ {d}
  /\ buffer' = ReadInto(buffer, ObjContent(Resolve(AddFilePath(d))))
  /\ running' = running \cup {[dirent |-> d, pc |-> "hash", p |-> AddFilePath(d),
                               s |-> FileSize(AddFilePath(d)), h |-> <<>>]}
  /\ UNCHANGED << config, call, apart, reported, scans, sets, files_examined, sets_found, list_lock,
                  phase, events, hashed, counted,
                  principals >>

\* _get_hash_of_file makes the key from the bytes in _buffer and returns true.
Hash(c) ==
  /\ c \in running /\ c.pc = "hash"
  /\ running' = (running \ {c}) \cup {[c EXCEPT !.pc = "lock", !.h = HashKey(buffer, c.s)]}
  /\ hashed' = hashed \cup {c.dirent}
  /\ UNCHANGED << config, call, apart, reported, scans, sets, files_examined, sets_found, list_lock, buffer,
                  phase, pending, events, counted,
                  principals >>

\* The index after the lookup-and-insert of path p under key h.
IndexInsert(index, h, p) ==
  IF h \in DOMAIN index
  THEN [index EXCEPT ![h] = SetInsert(index[h], p)]
  ELSE index @@ (h :> SetInsert(<<>>, p))

\* _sets.contains(h) and, after the insert, _sets.at(h).size() == 2.
ReachedTwo(index, h, p) == h \in DOMAIN index /\ Size(SetInsert(index[h], p)) = 2

\* A lock() that returns whoever holds the mutex.
LockAlways == TRUE

\* _list_lock.lock() returns: no thread holds the mutex.
TryLock == list_lock = NoPath

\* _list_lock.lock() and the critical section of _add_file.
LockInsert(c) ==
  /\ c \in running /\ c.pc = "lock"
  /\ TryLock
  /\ list_lock' = c.dirent
  /\ files_examined' = files_examined + 1
  /\ counted' = counted \cup {c.dirent}
  /\ sets' = IndexInsert(sets, c.h, c.p)
  /\ IF ReachedTwo(sets, c.h, c.p)
     THEN /\ sets_found' = sets_found + 1
          /\ events' = Append(events, "progress")
     ELSE UNCHANGED << sets_found, events >>
  /\ principals' = IF c.h \in DOMAIN sets THEN principals
                    ELSE principals \cup {c.p}
  /\ running' = (running \ {c}) \cup {[c EXCEPT !.pc = "unlock"]}
  /\ UNCHANGED << config, call, apart, reported, scans, buffer, phase, pending, hashed >>

\* _list_lock.unlock(); _add_file returns.
Unlock(c) ==
  /\ c \in running /\ c.pc = "unlock"
  /\ list_lock' = NoPath
  /\ running' = running \ {c}
  /\ UNCHANGED << config, call, apart, reported, scans, sets, files_examined, sets_found, buffer, phase,
                  pending, events, hashed, counted,
                  principals >>

\* A perform_scan that erases nothing.
PruneNone(index) == index

\* The keys perform_scan stages in del_list.
Singletons(index) == {k \in DOMAIN index : Size(index[k]) = 1}

\* The index after the loop that erases the staged keys.
Prune(index) == [k \in DOMAIN index \ Singletons(index) |-> index[k]]

\* perform_scan after _build_list: the pruning, the progress callback, return.
Finish ==
  /\ phase = "scanning"
  /\ pending = {}
  /\ running = {}
  /\ sets' = IF remove_single THEN Prune(sets) ELSE sets
  /\ events' = Append(events, "progress")
  /\ phase' = "returned"
  /\ UNCHANGED << config, call, apart, reported, scans, files_examined, sets_found, list_lock, buffer,
                  pending, running, hashed, counted,
                  principals >>

\* One perform_scan on a fresh engine.
Next ==
  \/ \E rec \in BOOLEAN : scans = 0 /\ PerformScan("dir", rec)
  \/ \E d \in pending : Skip(d)
  \/ \E d \in pending : ReportError(d)
  \/ \E d \in pending : Read(d)
  \/ \E c \in running : Hash(c)
  \/ \E c \in running : LockInsert(c)
  \/ \E c \in running : Unlock(c)
  \/ Finish

Spec == Init /\ [][Next]_vars

\* perform_scan called again on the engine a scan has returned from.
NextRescan ==
  \/ \E rec \in BOOLEAN : scans < MaxScans /\ PerformScan("dir", rec)
  \/ \E d \in pending : Skip(d)
  \/ \E d \in pending : Read(d)
  \/ \E c \in running : Hash(c)
  \/ \E c \in running : LockInsert(c)
  \/ \E c \in running : Unlock(c)
  \/ Finish

SpecRescan == InitRescan /\ [][NextRescan]_vars

\* One perform_scan of a tree with a file that does not open and a link,
\* while another process removes entries.
FaultTrees ==
  SUBSET { FileEntry(RootDir, a_txt, 1), FileEntry(RootDir, u_txt, 6),
           LinkEntry(RootDir, l_txt, Path(RootDir, a_txt)) }

FaultConfigs == { Default, [Default EXCEPT !.follow_links = TRUE] }

InitFaults ==
  /\ fs \in FaultTrees
  /\ \E c \in FaultConfigs : Configured(c)
  /\ Fresh
  /\ NoComparison
  /\ NoWrapper
  /\ NoEnumerator
  /\ NoHashing

NextFaults ==
  \/ \E rec \in BOOLEAN : scans = 0 /\ PerformScan("dir", rec)
  \/ \E e \in fs : Vanish(e)
  \/ \E d \in pending : Skip(d)
  \/ \E d \in pending : ReportError(d)
  \/ \E d \in pending : Throw(d)
  \/ \E d \in pending : Read(d)
  \/ \E c \in running : Hash(c)
  \/ \E c \in running : LockInsert(c)
  \/ \E c \in running : Unlock(c)
  \/ Finish

SpecFaults == InitFaults /\ [][NextFaults]_vars

(***************************************************************************)
(* The comparators applied to the paths of a tree: copies, a hard link, a  *)
(* copy of the same name in a directory, a name contained in another, two  *)
(* names that carry the same number.                                       *)
(***************************************************************************)
OrderTree ==
  { FileEntry(RootDir, a_txt, 1), FileEntry(RootDir, b_txt, 2),
    FileEntry(RootDir, z_txt, 1), FileEntry(DotDir, a_txt, 3),
    FileEntry(RootDir, zz, 7), FileEntry(RootDir, azz, 8),
    FileEntry(RootDir, x_1, 9), FileEntry(RootDir, y_1, 10) }

OrderPaths == {e.path : e \in OrderTree}

InitOrder ==
  /\ fs = OrderTree
  /\ Configured(Default)
  /\ Fresh
  /\ operands \in [1..3 -> OrderPaths]
  /\ verdicts = <<>>
  /\ NoWrapper
  /\ NoEnumerator
  /\ NoHashing

\* filename_sort()(lhs, rhs) for every pair of the operands.
CompareFilenameSort ==
  /\ verdicts = <<>>
  /\ verdicts' = [by |-> "filename_sort",
                  less |-> [i \in 1..3 |-> [j \in 1..3 |->
                             filename_sort(operands[i], operands[j])]]]
  /\ UNCHANGED << config, call, operands, wrapper, enumerator, hashing, sets, files_examined, sets_found,
                  list_lock, buffer, phase, scans, pending, running, events,
                  reported, hashed, counted,
                  principals >>

\* sort_by_filename()(lhs, rhs) for every pair of the operands.
CompareSortByFilename ==
  /\ verdicts = <<>>
  /\ verdicts' = [by |-> "sort_by_filename",
                  less |-> [i \in 1..3 |-> [j \in 1..3 |->
                             sort_by_filename(operands[i], operands[j])]]]
  /\ UNCHANGED << config, call, operands, wrapper, enumerator, hashing, sets, files_examined, sets_found,
                  list_lock, buffer, phase, scans, pending, running, events,
                  reported, hashed, counted,
                  principals >>

NextOrder == CompareFilenameSort \/ CompareSortByFilename

SpecOrder == InitOrder /\ [][NextOrder]_vars

(***************************************************************************)
(* unique_files_scanner: perform_scan runs the wrapped engine and appends  *)
(* the first path of each of its sets to _files.                           *)
(***************************************************************************)
\* std::tuple's operator< on two content keys: the sizes, then the strings.
KeyLess(k1, k2) ==
  \/ k1[1] < k2[1]
  \/ /\ k1[1] = k2[1]
     /\ \E i \in 1..Len(k1[2]) :
          /\ i <= Len(k2[2])
          /\ Code(k1[2][i]) < Code(k2[2][i])
          /\ \A j \in 1..(i - 1) : k1[2][j] = k2[2][j]

\* The keys of an index in the order std::map iterates them.
RECURSIVE KeysInOrder(_)
KeysInOrder(K) ==
  IF K = {} THEN <<>>
  ELSE LET k == CHOOSE x \in K : \A y \in K \ {x} : KeyLess(x, y)
       IN  <<k>> \o KeysInOrder(K \ {k})

\* for (const auto& ds : _scanner._sets) *(ds.second.begin()).
Representatives(index) ==
  LET ks == KeysInOrder(DOMAIN index)
  IN  [i \in 1..Len(ks) |-> InOrder(index[ks[i]])[1]]

\* unique_files_scanner::perform_scan up to the engine's perform_scan: the
\* wrapper hands its _follow_links and _extensions on.
UniquePerformScan(rec) ==
  /\ unique_pc # "engine"
  /\ unique_pc' = "engine"
  /\ remove_single' = FALSE
  /\ follow_links' = unique_config.follow_links
  /\ extensions' = extensions \cup unique_config.extensions
  /\ ScanEntry("dir", rec)
  /\ UNCHANGED << fs, skip_hidden, min_size, max_size,
                  operands, verdicts, files, unique_config, enumerator, hashing >>

\* unique_files_scanner::perform_scan after the engine has returned.
Collect ==
  /\ unique_pc = "engine"
  /\ phase = "returned"
  /\ files' = files \o Representatives(sets)
  /\ unique_pc' = "done"
  /\ UNCHANGED << config, call, operands, verdicts, unique_config, enumerator, hashing, sets,
                  files_examined, sets_found, list_lock, buffer, phase, scans, pending,
                  running, events, reported, hashed, counted,
                  principals >>

UniqueTrees ==
  { {},
    { FileEntry(RootDir, a_txt, 1), FileEntry(RootDir, dot_g_txt, 5) },
    { FileEntry(RootDir, a_txt, 1), FileEntry(RootDir, b_txt, 2),
      FileEntry(RootDir, dot_g_txt, 5) },
    { FileEntry(RootDir, a_txt, 1), FileEntry(RootDir, b_txt, 2),
      FileEntry(DotDir, a_txt, 3) } }

InitUnique ==
  /\ fs \in UniqueTrees
  /\ Configured(Default)
  /\ Fresh
  /\ NoComparison
  /\ NoWrapper
  /\ NoEnumerator
  /\ NoHashing

\* The unique scanner after one of its setters (two for a size window).
UniqueConfigs ==
  { UniqueDefault,
    [UniqueDefault EXCEPT !.follow_links = TRUE],
    [UniqueDefault EXCEPT !.skip_hidden = TRUE],
    [UniqueDefault EXCEPT !.extensions = {txt}],
    [UniqueDefault EXCEPT !.min_size = 3],
    [UniqueDefault EXCEPT !.max_size = 2] }

ConfiguredTrees ==
  { { FileEntry(RootDir, a_txt, 1), FileEntry(RootDir, dot_g_txt, 5),
      FileEntry(RootDir, c_dat, 4) },
    { FileEntry(RootDir, a_txt, 1), LinkEntry(RootDir, l_txt, Path(RootDir, a_txt)) },
    { FileEntry(RootDir, dot_g_txt, 5) } }

\* A configured unique scanner around an engine left as constructed.
InitConfigured ==
  /\ fs \in ConfiguredTrees
  /\ Configured(Default)
  /\ Fresh
  /\ NoComparison
  /\ NoEnumerator
  /\ NoHashing
  /\ files = <<>>
  /\ unique_pc = "idle"
  /\ unique_config \in UniqueConfigs

NextUnique ==
  \/ \E rec \in BOOLEAN : scans < MaxScans /\ UniquePerformScan(rec)
  \/ \E d \in pending : Skip(d)
  \/ \E d \in pending : Read(d)
  \/ \E c \in running : Hash(c)
  \/ \E c \in running : LockInsert(c)
  \/ \E c \in running : Unlock(c)
  \/ Finish
  \/ Collect

SpecUnique == InitUnique /\ [][NextUnique]_vars

SpecConfigured == InitConfigured /\ [][NextUnique]_vars

(***************************************************************************)
(* directory_scanner::add_filter and add_filters.                          *)
(***************************************************************************)
jpg == <<".", "j", "p", "g">>
jpeg == <<".", "j", "p", "e", "g">>
tif == <<".", "t", "i", "f">>
tiff == <<".", "t", "i", "f", "f">>
htm == <<".", "h", "t", "m">>
html == <<".", "h", "t", "m", "l">>

\* boost::to_lower_copy(filter).
to_lower_copy(filter) == [i \in 1..Len(filter) |-> ToLower(filter[i])]

\* The elements add_filter inserts for a filter.
Normalised(filter) ==
  LET lower == to_lower_copy(filter)
      ext == IF lower # <<>> /\ lower[1] = "." THEN lower ELSE <<".">> \o lower
  IN  IF ext = jpg \/ ext = jpeg THEN {jpeg, jpg}
      ELSE IF ext = tif \/ ext = tiff THEN {tiff, tif}
      ELSE IF ext = htm \/ ext = html THEN {htm, html}
      ELSE {ext}

\* The filters the callers pass.
FilterInputs ==
  { <<"J", "P", "G">>, <<".", "j", "p", "e", "g">>, <<"t", "i", "f">>,
    <<".", "H", "t", "m">>, <<"t", "x", "t">> }

\* The lists add_filters is called with.
FilterLists == {l \in SUBSET FilterInputs : l # {} /\ Cardinality(l) <= 2}

add_filter(filter) ==
  /\ extensions' = extensions \cup Normalised(filter)
  /\ UNCHANGED << fs, follow_links, skip_hidden, min_size, max_size,
                  remove_single, call, apart, sets, files_examined,
                  sets_found, list_lock, buffer, phase, scans, pending,
                  running, events, reported, hashed, counted, principals >>

\* add_filters inserts each element of the list as it is.
add_filters(list) ==
  /\ extensions' = extensions \cup list
  /\ UNCHANGED << fs, follow_links, skip_hidden, min_size, max_size,
                  remove_single, call, apart, sets, files_examined,
                  sets_found, list_lock, buffer, phase, scans, pending,
                  running, events, reported, hashed, counted, principals >>

InitFilters ==
  /\ fs = {}
  /\ Configured(Default)
  /\ Fresh
  /\ NoComparison
  /\ NoWrapper
  /\ NoEnumerator
  /\ NoHashing

NextFilters ==
  \/ \E filter \in FilterInputs : add_filter(filter)
  \/ \E list \in FilterLists : add_filters(list)

SpecFilters == InitFilters /\ [][NextFilters]_vars

(***************************************************************************)
(* directory_enumerator::move_next, one step for each system call.  The    *)
(* record enumerator holds the object's fields (opened, ended, handle,     *)
(* current), the directory (entries, pos: how many of them the handle has  *)
(* delivered), the call (pc, ec, ret, and the retries and sleeps it made)   *)
(* and the number of system calls that have failed.                        *)
(***************************************************************************)
\* The errno values for which the POSIX move_next repeats opendir.
PosixRetried == {"ENFILE", "EMFILE", "ENOSR", "EAGAIN", "ENOMEM"}

\* The errors for which the Windows move_next repeats the call.
WindowsRetried ==
  {"ERROR_TOO_MANY_OPEN_FILES", "ERROR_NOT_ENOUGH_MEMORY", "ERROR_OUTOFMEMORY",
   "ERROR_NOT_READY", "ERROR_SHARING_VIOLATION", "ERROR_LOCK_VIOLATION",
   "ERROR_BUSY", "ERROR_NETWORK_BUSY", "ERROR_PATH_BUSY"}

\* The errors a failing system call sets.
PosixErrors == {"EMFILE", "ENOMEM", "EACCES"}
WindowsErrors == {"ERROR_TOO_MANY_OPEN_FILES", "ERROR_BUSY", "ERROR_ACCESS_DENIED"}

\* A name move_next passes over, whatever follows it.
IsDotOnly(name) == name = "."

\* strcmp(name, ".") == 0 or strcmp(name, "..") == 0.
IsDots(name) == name = "." \/ name = ".."

MayFail == enumerator.faults < MaxFaults

\* move_next is called: ec.clear().
MoveNext ==
  /\ enumerator.platform # "none"
  /\ enumerator.pc = "idle"
  /\ enumerator' = [enumerator EXCEPT !.ec = "", !.ret = "none", !.retries = 0,
                                      !.sleeps = 0,
                                      !.pc = IF enumerator.opened THEN "read" ELSE "open"]
  /\ UNCHANGED << config, call, engine, operands, verdicts, files, unique_pc, unique_config, hashing >>

\* POSIX: opendir returns a stream.
OpenDir ==
  /\ enumerator.platform = "posix" /\ enumerator.pc = "open"
  /\ enumerator' = [enumerator EXCEPT !.handle = TRUE, !.opened = TRUE, !.pc = "read"]
  /\ UNCHANGED << config, call, engine, operands, verdicts, files, unique_pc, unique_config, hashing >>

\* POSIX: opendir returns nullptr with errno e.
OpenDirFails(e) ==
  /\ enumerator.platform = "posix" /\ enumerator.pc = "open" /\ MayFail
  /\ enumerator' =
       IF e \in PosixRetried
       THEN [enumerator EXCEPT !.faults = @ + 1, !.sleeps = @ + 1, !.retries = @ + 1]
       ELSE [enumerator EXCEPT !.faults = @ + 1, !.ec = e, !.ret = "false", !.pc = "idle"]
  /\ UNCHANGED << config, call, engine, operands, verdicts, files, unique_pc, unique_config, hashing >>

\* POSIX: readdir(_pdir) delivers the next entry or the end of the stream;
\* with _pdir a null pointer the call is undefined and the process faults.
ReadDir ==
  /\ enumerator.platform = "posix" /\ enumerator.pc = "read"
  /\ enumerator' =
       IF ~enumerator.handle THEN [enumerator EXCEPT !.pc = "crashed"]
       ELSE IF enumerator.pos = Len(enumerator.entries)
       THEN [enumerator EXCEPT !.ec = "", !.ended = TRUE, !.handle = FALSE,
                               !.ret = "false", !.pc = "idle"]
       ELSE LET name == enumerator.entries[enumerator.pos + 1]
            IN  IF IsDots(name)
                THEN [enumerator EXCEPT !.pos = @ + 1]
                ELSE [enumerator EXCEPT !.pos = @ + 1, !.current = name,
                                        !.ended = FALSE, !.ret = "true", !.pc = "idle"]
  /\ UNCHANGED << config, call, engine, operands, verdicts, files, unique_pc, unique_config, hashing >>

\* POSIX: readdir returns nullptr with errno e.
ReadDirFails(e) ==
  /\ enumerator.platform = "posix" /\ enumerator.pc = "read"
  /\ enumerator.handle /\ MayFail
  /\ enumerator' = [enumerator EXCEPT !.faults = @ + 1, !.ec = e, !.ended = TRUE,
                                      !.handle = FALSE, !.ret = "false", !.pc = "idle"]
  /\ UNCHANGED << config, call, engine, operands, verdicts, files, unique_pc, unique_config, hashing >>

\* Windows: FindFirstFile returns a handle and the first entry, or fails
\* with ERROR_FILE_NOT_FOUND when nothing matches.
FindFirstFile ==
  /\ enumerator.platform = "windows" /\ enumerator.pc = "open"
  /\ enumerator' =
       IF enumerator.entries = <<>>
       THEN [enumerator EXCEPT !.ret = "false", !.pc = "idle"]
       ELSE LET name == enumerator.entries[1]
            IN  IF ~IsDots(name)
                THEN [enumerator EXCEPT !.handle = TRUE, !.opened = TRUE, !.ended = FALSE,
                                        !.pos = 1, !.current = name, !.ret = "true",
                                        !.pc = "idle"]
                ELSE [enumerator EXCEPT !.handle = TRUE, !.opened = TRUE, !.ended = FALSE,
                                        !.pos = 1, !.pc = "read"]
  /\ UNCHANGED << config, call, engine, operands, verdicts, files, unique_pc, unique_config, hashing >>

\* Windows: FindFirstFile returns INVALID_HANDLE_VALUE with error e.
FindFirstFileFails(e) ==
  /\ enumerator.platform = "windows" /\ enumerator.pc = "open" /\ MayFail
  /\ enumerator' =
       IF e \in WindowsRetried
       THEN [enumerator EXCEPT !.faults = @ + 1, !.retries = @ + 1]
       ELSE [enumerator EXCEPT !.faults = @ + 1, !.ec = e, !.ret = "false", !.pc = "idle"]
  /\ UNCHANGED << config, call, engine, operands, verdicts, files, unique_pc, unique_config, hashing >>

\* Windows: FindNextFile delivers the next entry, or fails with
\* ERROR_NO_MORE_FILES at the end.
FindNextFile ==
  /\ enumerator.platform = "windows" /\ enumerator.pc = "read"
  /\ enumerator' =
       IF enumerator.pos = Len(enumerator.entries)
       THEN [enumerator EXCEPT !.ended = TRUE, !.ret = "false", !.pc = "idle"]
       ELSE LET name == enumerator.entries[enumerator.pos + 1]
            IN  IF IsDots(name)
                THEN [enumerator EXCEPT !.pos = @ + 1]
                ELSE [enumerator EXCEPT !.pos = @ + 1, !.current = name,
                                        !.ended = FALSE, !.ret = "true", !.pc = "idle"]
  /\ UNCHANGED << config, call, engine, operands, verdicts, files, unique_pc, unique_config, hashing >>

\* Windows: FindNextFile fails with error e.
FindNextFileFails(e) ==
  /\ enumerator.platform = "windows" /\ enumerator.pc = "read" /\ MayFail
  /\ enumerator' =
       IF e \in WindowsRetried
       THEN [enumerator EXCEPT !.faults = @ + 1, !.ended = TRUE, !.retries = @ + 1]
       ELSE [enumerator EXCEPT !.faults = @ + 1, !.ended = TRUE, !.ec = e,
                               !.ret = "false", !.pc = "idle"]
  /\ UNCHANGED << config, call, engine, operands, verdicts, files, unique_pc, unique_config, hashing >>

\* current() without its test of _opened and _ended.
CurrentUnchecked == enumerator.current

\* directory_enumerator::current: the path at the position of the enumerator,
\* or system_error(EINVAL).
Current ==
  IF ~enumerator.opened \/ enumerator.ended THEN "system_error" ELSE enumerator.current

\* The directories enumerated: the entries in the order the system delivers
\* them.
Listings ==
  { <<>>, <<"a">>, <<".", "..", "a">>, <<"..", ".", "a", "b">>,
    <<"a", ".", "b", "..">>, <<".", "..">> }

InitEnum ==
  /\ fs = {}
  /\ Configured(Default)
  /\ Fresh
  /\ NoComparison
  /\ NoWrapper
  /\ NoHashing
  /\ \E platform \in {"posix", "windows"}, entries \in Listings :
       enumerator = Enumerator(platform, entries)

NextEnum ==
  \/ MoveNext
  \/ OpenDir
  \/ \E e \in PosixErrors : OpenDirFails(e)
  \/ ReadDir
  \/ \E e \in PosixErrors : ReadDirFails(e)
  \/ FindFirstFile
  \/ \E e \in WindowsErrors : FindFirstFileFails(e)
  \/ FindNextFile
  \/ \E e \in WindowsErrors : FindNextFileFails(e)

SpecEnum == InitEnum /\ [][NextEnum]_vars

(***************************************************************************)
(* duplicate_files_scanner::_get_hash_of_file called by one thread on one  *)
(* readable file inside the size window, one step for each file.read.      *)
(* The bytes of a file longer than a digest are not enumerated: the hasher *)
(* is known by the number of bytes it has been fed.                        *)
(***************************************************************************)
\* duplicate_files_scanner::buffer_size.
buffer_size == 10485760

\* The values of the bytes of the enumerated files.
ByteValues == {10, 65, 255}

\* The sequences of at most n bytes.
RECURSIVE BytesUpTo(_)
BytesUpTo(n) ==
  IF n = 0 THEN { <<>> }
  ELSE BytesUpTo(n - 1) \cup
       { Append(b, v) : b \in {x \in BytesUpTo(n - 1) : Len(x) = n - 1}, v \in ByteValues }

\* The sizes of the files longer than a digest.
StreamSizes ==
  { digest_length + 1, buffer_size - 1, buffer_size, buffer_size + 1,
    2 * buffer_size, 2 * buffer_size + 1 }

\* hasher.final_stdvec() after fed bytes of the file have been fed.
StreamDigest(fed) == [i \in 1..digest_length |-> (fed + 7 * i) % 256]

\* The branch on s <= digest_length (line 55).
GetHashOfFile ==
  /\ hashing.pc = "call"
  /\ hashing' = [hashing EXCEPT !.pc = IF hashing.size <= digest_length
                                       THEN "short" ELSE "stream"]
  /\ UNCHANGED << config, call, engine, operands, verdicts, files, unique_pc, unique_config, enumerator >>

\* The short-file branch: one file.read, the loop over the buffer, return.
ShortKey ==
  /\ hashing.pc = "short"
  /\ buffer' = ReadInto(buffer, hashing.bytes)
  /\ hashing' = [hashing EXCEPT !.pc = "done", !.ret = "true",
                                !.out = << hashing.size, ShortHex(buffer', hashing.size) >>]
  /\ UNCHANGED << config, call, operands, verdicts, files, unique_pc, unique_config, enumerator,
                  sets, files_examined, sets_found, list_lock, phase, scans,
                  pending, running, events, reported, hashed, counted, principals >>

\* The number of bytes file.read delivers at the offset of the stream.
Gcount == IF hashing.size - hashing.offset < buffer_size
          THEN hashing.size - hashing.offset ELSE buffer_size

\* One turn of while (!file.eof()): file.read of buffer_size bytes sets eof
\* when the file ends before the buffer is full; no byte read returns false.
StreamRead ==
  /\ hashing.pc = "stream" /\ ~hashing.eof
  /\ hashing' =
       IF Gcount = 0
       THEN [hashing EXCEPT !.eof = TRUE, !.pc = "done", !.ret = "false"]
       ELSE [hashing EXCEPT !.offset = @ + Gcount, !.eof = Gcount < buffer_size,
                            !.fed = @ + Gcount]
  /\ UNCHANGED << config, call, engine, operands, verdicts, files, unique_pc, unique_config, enumerator >>

\* The loop has ended: the digest is rendered and the key returned.
StreamKey ==
  /\ hashing.pc = "stream" /\ hashing.eof
  /\ hashing' = [hashing EXCEPT !.pc = "done", !.ret = "true",
                                !.out = << hashing.size, HexOf(StreamDigest(hashing.fed)) >>]
  /\ UNCHANGED << config, call, engine, operands, verdicts, files, unique_pc, unique_config, enumerator >>

InitHash ==
  /\ fs = {}
  /\ Configured(Default)
  /\ Fresh
  /\ NoComparison
  /\ NoWrapper
  /\ NoEnumerator
  /\ \/ \E bytes \in BytesUpTo(MaxBytes) : hashing = HashCall(Len(bytes), bytes)
     \/ \E s \in StreamSizes : hashing = HashCall(s, <<>>)

NextHash ==
  \/ GetHashOfFile
  \/ ShortKey
  \/ StreamRead
  \/ StreamKey

SpecHash == InitHash /\ [][NextHash]_vars

\* The critical section of _add_file when _scan_progress_callback raises: the
\* exception leaves _add_file past _list_lock.unlock() and, escaping from a
\* std::for_each(std::execution::par), ends the program.
CallbackRaises(c) ==
  /\ c \in running /\ c.pc = "lock"
  /\ TryLock
  /\ ReachedTwo(sets, c.h, c.p)
  /\ list_lock' = c.dirent
  /\ files_examined' = files_examined + 1
  /\ counted' = counted \cup {c.dirent}
  /\ sets' = IndexInsert(sets, c.h, c.p)
  /\ sets_found' = sets_found + 1
  /\ events' = Append(events, "progress")
  /\ phase' = "terminated"
  /\ pending' = {}
  /\ running' = {}
  /\ UNCHANGED << config, call, apart, reported, scans, buffer, hashed, principals >>

\* Scans whose progress callback may raise.
NextRaise ==
  \/ \E rec \in BOOLEAN : scans < MaxScans /\ PerformScan("dir", rec)
  \/ \E d \in pending : Skip(d)
  \/ \E d \in pending : Read(d)
  \/ \E c \in running : Hash(c)
  \/ \E c \in running : LockInsert(c)
  \/ \E c \in running : CallbackRaises(c)
  \/ \E c \in running : Unlock(c)
  \/ Finish

SpecRaise == InitRescan /\ [][NextRaise]_vars

\* duplicate_files_scanner::clear, called between scans: _sets.clear().
clear ==
  /\ phase \in {"idle", "returned"}
  /\ sets' = <<>>
  /\ UNCHANGED << config, call, apart, files_examined, sets_found, list_lock, buffer,
                  phase, scans, pending, running, events, reported, hashed, counted,
                  principals >>

\* Scans of one engine with calls of clear() between them.
NextClear ==
  \/ \E rec \in BOOLEAN : scans < MaxScans /\ PerformScan("dir", rec)
  \/ \E d \in pending : Skip(d)
  \/ \E d \in pending : Read(d)
  \/ \E c \in running : Hash(c)
  \/ \E c \in running : LockInsert(c)
  \/ \E c \in running : Unlock(c)
  \/ Finish
  \/ clear

SpecClear == InitRescan /\ [][NextClear]_vars

\* perform_scan called with any search_dir, on a fresh and on a used engine.
NextCalls ==
  \/ \E root \in Roots, rec \in BOOLEAN : scans < MaxScans /\ PerformScan(root, rec)
  \/ \E d \in pending : Skip(d)
  \/ \E d \in pending : Read(d)
  \/ \E c \in running : Hash(c)
  \/ \E c \in running : LockInsert(c)
  \/ \E c \in running : Unlock(c)
  \/ Finish

SpecCalls == InitRescan /\ [][NextCalls]_vars

(***************************************************************************)
(* Vocabulary of the properties.                                           *)
(***************************************************************************)
Keys == DOMAIN sets

\* The paths held by some set of the index.
Indexed == UNION {Members(sets[k]) : k \in Keys}

Content(p) == ObjContent(Resolve(p))

\* The directory entries that are regular files (no links, no directories).
RegularEntries == {e.path : e \in {x \in fs : x.kind = "file"}}

\* Some component of the path below the root begins with a dot.
HasDotComponent(p) ==
  \/ p.name[1] = "."
  \/ \E i \in 1..Len(p.dir) : p.dir[i][1] = "."

\* All orders of the elements of a set.
RECURSIVE Orders(_)
Orders(S) ==
  IF S = {} THEN {<<>>}
  ELSE UNION {{<<x>> \o o : o \in Orders(S \ {x})} : x \in S}

\* The index a scan leaves when the entries of order are read, hashed and
\* inserted one after the other, each alone.
RECURSIVE InsertedInOrder(_, _)
InsertedInOrder(order, index) ==
  IF order = <<>> THEN index
  ELSE LET p == AddFilePath(Head(order))
       IN  InsertedInOrder(Tail(order),
                           IndexInsert(index, HashKey(Content(p), FileSize(p)), p))

SequentialResult(order) ==
  IF remove_single THEN Prune(InsertedInOrder(order, <<>>))
  ELSE InsertedInOrder(order, <<>>)

\* What iteration shows of an index: its keys and each set's members in order.
Listing(index) == [k \in DOMAIN index |-> InOrder(index[k])]

Count(kind) == Cardinality({i \in 1..Len(events) : events[i] = kind})

(***************************************************************************)
(* C1.  Closed under content equivalence: when perform_scan returns, any   *)
(* two admitted regular files that are different on-disk objects with the  *)
(* same size and bytes are members of the same set of the index.           *)
(***************************************************************************)
C1_ClosedUnderContent ==
  phase = "returned" =>
    \A d1, d2 \in counted \cap RegularEntries :
      (Resolve(d1) # Resolve(d2) /\ Content(d1) = Content(d2))
        => \E k \in Keys : {d1, d2} \subseteq Members(sets[k])

(***************************************************************************)
(* C2.  Every duplicate set holds only pairwise byte-identical files: two  *)
(* files whose contents differ never appear in the same set.               *)
(***************************************************************************)
C2_SetsByteIdentical ==
  \A k \in Keys : \A p, q \in Members(sets[k]) : Content(p) = Content(q)

(***************************************************************************)
(* C3.  Singleton pruning: the step by which perform_scan returns leaves,  *)
(* with remove_single, only sets of at least 2 members, and without it     *)
(* the index as it was.                                                    *)
(***************************************************************************)
C3_SingletonPruning ==
  [][ (phase = "scanning" /\ phase' = "returned") =>
        IF remove_single
        THEN \A k \in DOMAIN sets' : Size(sets'[k]) >= 2
        ELSE sets' = sets ]_vars

\* A scan of three admitted files by an engine whose index held a set before
\* the call has returned: one set of two was kept and the singleton of the
\* third was pruned.
C3_Witness ==
  /\ phase = "returned"
  /\ scans = MaxScans
  /\ remove_single
  /\ Cardinality(counted) = 3
  /\ Cardinality(Keys) = 1
  /\ \A k \in Keys : Size(sets[k]) = 2
  /\ \E d \in counted : AddFilePath(d) \notin Indexed

(***************************************************************************)
(* C4.  sets_found counts each content key once: whenever the index lock   *)
(* is free, sets_found equals the number of sets with at least 2 members.  *)
(***************************************************************************)
C4_SetsFoundCountsSets ==
  list_lock = NoPath =>
    sets_found = Cardinality({k \in Keys : Size(sets[k]) >= 2})

(***************************************************************************)
(* C5.  Determinism: the index a scan returns with (keys, members, order   *)
(* of iteration) is the one every order of hashing and inserting the       *)
(* admitted files yields.                                                  *)
(***************************************************************************)
C5_Deterministic ==
  phase = "returned" =>
    \A order \in Orders(counted) : Listing(sets) = Listing(SequentialResult(order))

(***************************************************************************)
(* C6.  Callback ordering: when perform_scan returns, the started callback *)
(* has fired exactly once and first, the completed callback exactly once   *)
(* and last, every progress callback in between.                           *)
(***************************************************************************)
C6_CallbackOrder ==
  phase = "returned" =>
    /\ Len(events) >= 2
    /\ events[1] = "started"
    /\ events[Len(events)] = "completed"
    /\ Count("started") = 1
    /\ Count("completed") = 1

(***************************************************************************)
(* C7.  Symlink policy: with follow_symlinks false a directory entry that  *)
(* is a symbolic link is never hashed, never counted in files_examined     *)
(* and never inserted.                                                     *)
(***************************************************************************)
C7_NoSymlinkAdmitted ==
  ~follow_links =>
    \A d \in hashed \cup counted \cup Indexed : ~IsSymlink(d)

(***************************************************************************)
(* C8.  Hidden policy: with skip_hidden no file is hashed, counted or      *)
(* inserted whose path below the root has a component beginning with '.'.  *)
(***************************************************************************)
C8_NoHiddenAdmitted ==
  skip_hidden =>
    \A d \in hashed \cup counted \cup Indexed : ~HasDotComponent(d)

(***************************************************************************)
(* C9.  Filter correctness: a file is hashed, counted or inserted only if  *)
(* its size lies in min_size..max_size and, with a non-empty extension     *)
(* set, its extension is in the set; the window is inclusive: when the     *)
(* scan returns, a regular file that passes the other filters and whose    *)
(* size equals min_size or max_size has been hashed and counted.           *)
(***************************************************************************)
C9_FilterCorrect ==
  /\ \A d \in hashed \cup counted :
        /\ min_size <= FileSize(AddFilePath(d))
        /\ FileSize(AddFilePath(d)) <= max_size
        /\ extensions # {} => Extension(AddFilePath(d)) \in extensions
  /\ \A p \in Indexed :
        /\ min_size <= FileSize(p) /\ FileSize(p) <= max_size
        /\ extensions # {} => Extension(p) \in extensions
  /\ phase = "returned" =>
        \A d \in {x \in RegularEntries : x.dir = RootDir} :
          ( /\ FileSize(d) \in {min_size, max_size}
            /\ ~(skip_hidden /\ d.name[1] = ".")
            /\ (extensions = {} \/ Extension(d) \in extensions) )
          => d \in hashed \cap counted

\* A scan under a narrowed size window has returned: a file whose size is
\* the window's bound was counted, a file beyond the window was not hashed.
C9_Witness ==
  /\ phase = "returned"
  /\ min_size > 0
  /\ \E d \in counted : FileSize(d) = min_size /\ FileSize(d) = max_size
  /\ \E d \in RegularEntries : FileSize(d) > max_size /\ d \notin hashed

(***************************************************************************)
(* C10.  No self-duplicate: no set of the index holds two distinct paths   *)
(* that refer to the same on-disk object.                                  *)
(***************************************************************************)
C10_NoSelfDuplicate ==
  \A k \in Keys : \A p, q \in Members(sets[k]) :
    p # q => Resolve(p) # Resolve(q)

(***************************************************************************)
(* C11.  Canonicalization failure is report-and-continue: when a thread    *)
(* takes an entry whose canonicalization fails, the error callback fires   *)
(* with that entry, the entry is neither hashed nor counted, and the scan  *)
(* goes on.                                                                *)
(***************************************************************************)
CanonicalizationFails(d) == Admission(d) \in {"error", "throw"}

C11_CanonicalFailureReported ==
  [][ \A d \in pending \ pending' :
        CanonicalizationFails(d) =>
          /\ d \in reported'
          /\ d \notin hashed' \cup counted'
          /\ phase' = "scanning" ]_vars

(***************************************************************************)
(* C12.  File read errors are reported: when a thread takes an admitted    *)
(* regular file that does not open, the error callback fires with it, the  *)
(* file is not counted, and the scan goes on.                              *)
(***************************************************************************)
C12_ReadErrorReported ==
  [][ \A d \in pending \ pending' :
        Admission(d) = "closed" =>
          /\ d \in reported'
          /\ d \notin counted'
          /\ phase' = "scanning" ]_vars

(***************************************************************************)
(* C13.  Invalid configuration is fatal and has no effect: a perform_scan  *)
(* called with an empty, non-existent or non-directory search_dir throws,  *)
(* fires no callback and leaves the index, files_examined and sets_found   *)
(* as they were.                                                           *)
(***************************************************************************)
C13_InvalidRootNoEffect ==
  [][ (scans' # scans /\ search_dir' # "dir") =>
        /\ thrown' # "none"
        /\ events' = events
        /\ reported' = reported
        /\ sets' = sets
        /\ files_examined' = files_examined
        /\ sets_found' = sets_found ]_vars

\* A call with an invalid search_dir has thrown on an engine whose earlier
\* scan left a set in the index.
C13_Witness ==
  /\ thrown # "none"
  /\ search_dir \in {"", "missing", "file"}
  /\ sets # <<>>
  /\ files_examined > 0
  /\ sets_found > 0

(***************************************************************************)
(* C14.  The filename ordering is a strict order: for the paths a, b, c a  *)
(* comparator was called with, a does not precede a, if a precedes b then  *)
(* b does not precede a, and if a precedes b and b precedes c then a       *)
(* precedes c.                                                             *)
(***************************************************************************)
Precedes(i, j) == verdicts.less[i][j]

C14_StrictOrder ==
  verdicts # <<>> =>
    \A i, j, k \in 1..3 :
      /\ ~Precedes(i, i)
      /\ Precedes(i, j) => ~Precedes(j, i)
      /\ (Precedes(i, j) /\ Precedes(j, k)) => Precedes(i, k)

(***************************************************************************)
(* C15.  The filename ordering is total: of two paths a comparator was     *)
(* called with that are not the same on-disk object, exactly one precedes  *)
(* the other.                                                              *)
(***************************************************************************)
C15_TotalOrder ==
  verdicts # <<>> =>
    \A i, j \in 1..3 :
      ~Equivalent(operands[i], operands[j]) => (Precedes(i, j) # Precedes(j, i))

(***************************************************************************)
(* C16.  Unique-files projection: whenever a perform_scan of a             *)
(* unique_files_scanner has returned, _files holds exactly one path for    *)
(* each content key of the wrapped index, and no two of its elements have  *)
(* the same content.                                                       *)
(***************************************************************************)
C16_UniqueProjection ==
  unique_pc = "done" =>
    /\ \A k \in Keys :
         Cardinality({i \in 1..Len(files) : files[i] \in Members(sets[k])}) = 1
    /\ \A i, j \in 1..Len(files) :
         i # j => Content(files[i]) # Content(files[j])

(***************************************************************************)
(* C17.  The representative the unique-files projection returns for a      *)
(* class is the class's principal, the first path inserted into its set.   *)
(***************************************************************************)
C17_RepresentativeIsPrincipal ==
  unique_pc = "done" =>
    \A k \in Keys : \A i \in 1..Len(files) :
      files[i] \in Members(sets[k]) => files[i] \in principals

(***************************************************************************)
(* C18.  Extension filter invariant: after any sequence of add_filter and  *)
(* add_filters calls every element of the extension set is lowercase and   *)
(* begins with '.', and the set holds both members of a synonym pair       *)
(* whenever it holds one.                                                  *)
(***************************************************************************)
Synonyms == { <<jpg, jpeg>>, <<tif, tiff>>, <<htm, html>> }

C18_ExtensionsNormalised ==
  /\ \A e \in extensions :
       /\ e # <<>>
       /\ e[1] = "."
       /\ to_lower_copy(e) = e
  /\ \A pair \in Synonyms : (pair[1] \in extensions) <=> (pair[2] \in extensions)

(***************************************************************************)
(* C19.  The directory enumerator never returns '.' and '..': whenever     *)
(* move_next has returned true, current() is readable and its last         *)
(* component is neither of them.                                           *)
(***************************************************************************)
C19_NoDotEntries ==
  enumerator.ret = "true" =>
    /\ enumerator.opened /\ ~enumerator.ended
    /\ enumerator.current \notin {".", ".."}

\* move_next has returned true on a directory whose first entry read after
\* opening is '.' or '..'.
C19_Witness ==
  /\ enumerator.ret = "true"
  /\ enumerator.entries # <<>>
  /\ enumerator.entries[1] \in {".", ".."}
  /\ enumerator.pos > 1

\* The errors either build of the enumerator treats as transient.
Transient == PosixRetried \cup WindowsRetried

(***************************************************************************)
(* C20.  The enumerator never surfaces a transient resource-exhaustion     *)
(* error: a call that failed with too many open files, out of memory or    *)
(* busy is repeated after a sleep, so move_next never returns false with   *)
(* such an error in ec and sleeps before every retry.                      *)
(***************************************************************************)
C20_TransientNeverSurfaced ==
  /\ enumerator.ret = "false" => enumerator.ec \notin Transient
  /\ enumerator.sleeps = enumerator.retries

(***************************************************************************)
(* C21.  current() returns a path if and only if the most recent call of   *)
(* move_next returned true: before the first move_next and after any       *)
(* move_next that returned false (end of directory, open failure, read      *)
(* error) it raises an error.                                              *)
(***************************************************************************)
C21_CurrentIffMoved ==
  enumerator.pc = "idle" =>
    ((Current # "system_error") <=> (enumerator.ret = "true"))

\* move_next has returned false after an earlier call had returned an entry,
\* and current() raises.
C21_Witness ==
  /\ enumerator.pc = "idle"
  /\ enumerator.ret = "false"
  /\ enumerator.current = "a"
  /\ Current = "system_error"

(***************************************************************************)
(* C22.  Short-file key: for a file of size n <= 64 with bytes B the hex   *)
(* component of the key starts with the 2n-character uppercase hexadecimal *)
(* rendering of B, byte i at positions 2i and 2i+1, and every character     *)
(* after it is '0'.                                                        *)
(***************************************************************************)
C22_ShortFileKey ==
  (hashing.pc = "done" /\ hashing.size <= digest_length) =>
    /\ hashing.ret = "true"
    /\ Len(hashing.out[2]) = 2 * digest_length
    /\ SubSeq(hashing.out[2], 1, 2 * hashing.size) = HexOf(hashing.bytes)
    /\ \A i \in (2 * hashing.size + 1)..(2 * digest_length) : hashing.out[2][i] = "0"

(***************************************************************************)
(* C23.  Streaming digest: for a readable file of size s > 64, smaller     *)
(* than the buffer, larger, or an exact multiple of it, _get_hash_of_file   *)
(* feeds all s bytes to the hash, stops at end of file and returns a key    *)
(* of 128 hex characters.                                                  *)
(***************************************************************************)
C23_StreamingDigest ==
  (hashing.pc = "done" /\ hashing.size > digest_length) =>
    /\ hashing.ret = "true"
    /\ hashing.fed = hashing.size
    /\ hashing.out[1] = hashing.size
    /\ Len(hashing.out[2]) = 2 * digest_length

\* The workers inside the critical section of _add_file.
InSection == {c \in running : c.pc = "unlock"}

(***************************************************************************)
(* C24.  Mutual exclusion on the index: during traversal every mutation of *)
(* the index map, files_examined and sets_found is made by a worker that   *)
(* has taken _list_lock and still holds it, lookup and insert for one file  *)
(* are one critical section, and at most one worker is inside it.          *)
(***************************************************************************)
C24_MutualExclusion ==
  /\ [](/\ Cardinality(InSection) <= 1
        /\ \A c \in InSection : list_lock = c.dirent
        /\ (list_lock # NoPath) => InSection # {})
  /\ [][ (phase = "scanning" /\ phase' = "scanning" /\
          (sets' # sets \/ files_examined' # files_examined \/ sets_found' # sets_found))
         => /\ list_lock = NoPath
            /\ \E c \in running :
                 /\ c.pc = "lock"
                 /\ list_lock' = c.dirent
                 /\ sets' = IndexInsert(sets, c.h, c.p)
                 /\ [c EXCEPT !.pc = "unlock"] \in running' ]_vars

\* One worker is inside the critical section while another has its key and
\* waits for the lock.
C24_Witness ==
  /\ InSection # {}
  /\ \E d \in running : d.pc = "lock"

(***************************************************************************)
(* C25.  Worker isolation while hashing: the key a worker computes for a   *)
(* file depends only on that file's size and bytes, for every interleaving *)
(* of the workers executing _get_hash_of_file.                             *)
(***************************************************************************)
C25_WorkerIsolation ==
  \A c \in running :
    c.pc \in {"lock", "unlock"} => c.h = HashKey(ObjContent(Resolve(c.p)), c.s)

(***************************************************************************)
(* C26.  Progress per file: every admitted regular file that is hashed and *)
(* inserted causes exactly one progress callback, so the progress          *)
(* callbacks fired during traversal (those after the one perform_scan       *)
(* fires on entry) are as many as the files counted.                       *)
(***************************************************************************)
C26_ProgressPerFile ==
  phase = "scanning" => Count("progress") = 1 + files_examined

(***************************************************************************)
(* C27.  The index lock is always released: every execution of _add_file   *)
(* that acquires _list_lock releases it before leaving, also when the set  *)
(* insertion or the progress callback raises, so the lock is only ever     *)
(* held by a worker that is still inside the critical section.             *)
(***************************************************************************)
C27_LockReleased ==
  list_lock # NoPath => \E c \in InSection : c.dirent = list_lock

(***************************************************************************)
(* C28.  clear() returns the engine to the state of a freshly constructed  *)
(* engine with the same configuration: after it the index is empty and     *)
(* files_examined() and sets_found() are 0.                                *)
(***************************************************************************)
C28_ClearResets ==
  [][ (phase = "returned" /\ phase' = "returned" /\ sets' # sets) =>
        /\ sets' = <<>>
        /\ files_examined' = 0
        /\ sets_found' = 0 ]_vars

\* The unique scanner's own configuration excludes the file at path p.
Excluded(p) ==
  \/ unique_config.skip_hidden /\ is_hidden(p)
  \/ ~unique_config.follow_links /\ IsSymlink(p)
  \/ FileSize(p) < unique_config.min_size
  \/ FileSize(p) > unique_config.max_size
  \/ unique_config.extensions # {} /\ Extension(p) \notin unique_config.extensions

(***************************************************************************)
(* C29.  unique_files_scanner.perform_scan applies every filter configured *)
(* on the unique scanner (follow_symlinks, skip_hidden, min_size, max_size *)
(* and the extension set) to the wrapped engine: no file its own           *)
(* configuration excludes is returned as a representative.                 *)
(***************************************************************************)
C29_FiltersApplied ==
  unique_pc = "done" => \A i \in 1..Len(files) : ~Excluded(files[i])

(***************************************************************************)
(* C30.  Once move_next has returned false because the directory was       *)
(* exhausted or a read failed, the handle has been released, and every     *)
(* later move_next returns false without reading from the released handle. *)
(***************************************************************************)
C30_ReleasedHandleUnused ==
  /\ (enumerator.pc = "idle" /\ enumerator.opened /\ enumerator.ended) => ~enumerator.handle
  /\ enumerator.pc = "read" => enumerator.handle
  /\ enumerator.pc # "crashed"

=============================================================================
